---- MODULE Spec2Model ----
(***************************************************************************)
(* Graph-preparation engine of the narrative co-occurrence pages           *)
(* (pages/4_Cocurrence_Mapping_complex.py, pages/5_Cocurrence_Mapping.py). *)
(*                                                                         *)
(* Tables are sequences of rows (records).  Coordinates are integers in    *)
(* units of 1/CoordScale, so that every quotient the code computes is an   *)
(* exact rational [num, den].  A Python None/NaN cluster_name is NA.       *)
(***************************************************************************)
EXTENDS Integers, Sequences, FiniteSets, TLC

\* ------------------------------------------------------------------ bounds
MaxNodes == 3
MaxConnEdges == 1
MaxEdges == 3
MaxWeight == 2
MaxSize == 1
MaxHoverEdges == 2
GridMax == 3
MaxPeriods == 4
MaxClusters == 11
MaxRecords == 2

\* ------------------------------------------------------------- value sets
NA == "NaN"
None == "None"
Unknown == "Unknown"

Quarters == {"2024Q1", "2024Q2"}
FirstQuarter == "2024Q1"
LastQuarter == "2024Q2"
\* raw quarter keys in ascending order (the order sorted() gives strings)
QuarterKeys == << "2023Q3", "2023Q4", "2024-1", "2024Q1", "2024Q2", "2024Q3" >>

\* Cluster names of the topic lookup, in Python's string order.
ClusterOrder ==
    << "Anxiety & Mental Health", "Awareness", "Concentration & Flow", "Self-Regulation" >>
ClusterNames == { ClusterOrder[i] : i \in 1..Len(ClusterOrder) }

\* All cluster_name values of the tables, in Python's string order: the
\* names above, then further names the data may hold.
NameOrder ==
    ClusterOrder \o
    << "Topic 05", "Topic 06", "Topic 07", "Topic 08", "Topic 09",
       "Topic 10", "Topic 11", "Topic 12", "Topic 13", "Topic 14" >>

\* ------------------------------------------------------------ sequences
Range(s) == { s[i] : i \in 1..Len(s) }

RECURSIVE SumSeq(_)
SumSeq(s) == IF s = << >> THEN 0 ELSE s[1] + SumSeq(Tail(s))

Take(s, n) == IF Len(s) <= n THEN s ELSE SubSeq(s, 1, n)

\* sorted(names) for a set of cluster names
SortedNames(S) == SelectSeq(NameOrder, LAMBDA c : c \in S)

\* --------------------------------------------------------- cell values
\* What a cell of avg_score or sentiment holds: a number n/d, a set or a
\* list with the one element n/d, an empty set, a string that is no number,
\* None, NaN; "absent" where the table has no such column.
Number(n, d) == [tag |-> "num", n |-> n, d |-> d]
Cell(tag) == [tag |-> tag, n |-> 0, d |-> 1]
SetOf(n, d) == [tag |-> "set", n |-> n, d |-> d]
ListOf(n, d) == [tag |-> "list", n |-> n, d |-> d]
Absent == Cell("absent")

\* ------------------------------------------------------------------ rows
NodeRow(q, p, c, s) ==
    [quarter |-> q, x |-> p[1], y |-> p[2], cluster_name |-> c, scaled_size |-> s,
     avg_score |-> Number(35, 1), sentiment |-> Number(1, 2)]
EdgeRow(q, a, b, w) ==
    [quarter |-> q, x0 |-> a[1], y0 |-> a[2], x1 |-> b[1], y1 |-> b[2], weight |-> w,
     sentiment |-> Number(1, 2)]

\* ------------------------------------------- calculate_river_flow_data
\* df[df['quarter'] == selected_quarter]
FilterQuarter(df, selected_quarter) ==
    SelectSeq(df, LAMBDA r : r.quarter = selected_quarter)

\* mutant: only the start endpoint of each edge is recorded
RECURSIVE node_coords_q_start_only(_)
node_coords_q_start_only(edges_q) ==
    IF edges_q = << >> THEN {}
    ELSE {<<Head(edges_q).x0, Head(edges_q).y0>>} \cup node_coords_q_start_only(Tail(edges_q))

\* the set filled by the loop over edges_q.iterrows()
RECURSIVE node_coords_q(_)
node_coords_q(edges_q) ==
    IF edges_q = << >> THEN {}
    ELSE LET edge == Head(edges_q)
         IN  {<<edge.x0, edge.y0>>, <<edge.x1, edge.y1>>} \cup node_coords_q(Tail(edges_q))

has_edge_q(row, coords) == <<row.x, row.y>> \in coords

ConnectedNodes(nodes_q, edges_q) ==
    LET coords == node_coords_q(edges_q)
    IN  SelectSeq(nodes_q, LAMBDA row : has_edge_q(row, coords))

\* mutant: the quotient without its guard
CoOccurrenceRateUnguarded(connected_count, total_nodes) ==
    [num |-> connected_count * 100, den |-> total_nodes]

\* (connected_count / total_nodes * 100) if total_nodes > 0 else 0
CoOccurrenceRate(connected_count, total_nodes) ==
    IF total_nodes > 0 THEN [num |-> connected_count * 100, den |-> total_nodes]
    ELSE [num |-> 0, den |-> 1]

\* sorted(nodes_q['cluster_name'].dropna().unique())
UniqueClusters(nodes) ==
    SortedNames({ nodes[i].cluster_name : i \in 1..Len(nodes) } \ {NA})

NodesAt(nodes_q, px, py) == SelectSeq(nodes_q, LAMBDA n : n.x = px /\ n.y = py)

\* mutant: the other cluster is always taken from the end of the edge
RECURSIVE ClusterEdgesEndOnly(_, _, _)
ClusterEdgesEndOnly(nodes_q, edges_q, cluster) ==
    IF edges_q = << >> THEN << >>
    ELSE LET edge == Head(edges_q)
             rest == ClusterEdgesEndOnly(nodes_q, Tail(edges_q), cluster)
             start_nodes == NodesAt(nodes_q, edge.x0, edge.y0)
             end_nodes == NodesAt(nodes_q, edge.x1, edge.y1)
         IN  IF start_nodes # << >> /\ end_nodes # << >>
             THEN LET start_cluster == start_nodes[1].cluster_name
                      end_cluster == end_nodes[1].cluster_name
                  IN  IF (start_cluster = cluster \/ end_cluster = cluster)
                         /\ end_cluster # cluster
                      THEN << <<end_cluster, edge.weight>> >> \o rest
                      ELSE rest
             ELSE rest

\* mutant: an edge counts only for the cluster it starts in
RECURSIVE ClusterEdgesFromStart(_, _, _)
ClusterEdgesFromStart(nodes_q, edges_q, cluster) ==
    IF edges_q = << >> THEN << >>
    ELSE LET edge == Head(edges_q)
             rest == ClusterEdgesFromStart(nodes_q, Tail(edges_q), cluster)
             start_nodes == NodesAt(nodes_q, edge.x0, edge.y0)
             end_nodes == NodesAt(nodes_q, edge.x1, edge.y1)
         IN  IF start_nodes # << >> /\ end_nodes # << >>
             THEN LET start_cluster == start_nodes[1].cluster_name
                      end_cluster == end_nodes[1].cluster_name
                  IN  IF start_cluster = cluster /\ end_cluster # cluster
                      THEN << <<end_cluster, edge.weight>> >> \o rest
                      ELSE rest
             ELSE rest

\* the list cluster_edges built by the inner loop over edges_q.iterrows()
RECURSIVE ClusterEdges(_, _, _)
ClusterEdges(nodes_q, edges_q, cluster) ==
    IF edges_q = << >> THEN << >>
    ELSE LET edge == Head(edges_q)
             rest == ClusterEdges(nodes_q, Tail(edges_q), cluster)
             start_nodes == NodesAt(nodes_q, edge.x0, edge.y0)
             end_nodes == NodesAt(nodes_q, edge.x1, edge.y1)
         IN  IF start_nodes # << >> /\ end_nodes # << >>
             THEN LET start_cluster == start_nodes[1].cluster_name
                      end_cluster == end_nodes[1].cluster_name
                      other_cluster ==
                          IF start_cluster = cluster THEN end_cluster ELSE start_cluster
                  IN  IF (start_cluster = cluster \/ end_cluster = cluster)
                         /\ other_cluster # cluster
                      THEN << <<other_cluster, edge.weight>> >> \o rest
                      ELSE rest
             ELSE rest

\* co_occurrence_counts[k] = co_occurrence_counts.get(k, 0) + weight; the dict
\* keeps its keys in insertion order, so it is a sequence of <<key, sum>> pairs
DictAdd(d, k, w) ==
    IF \E i \in 1..Len(d) : d[i][1] = k
    THEN [i \in 1..Len(d) |-> IF d[i][1] = k THEN <<k, d[i][2] + w>> ELSE d[i]]
    ELSE Append(d, <<k, w>>)

RECURSIVE CountsFrom(_, _)
CountsFrom(d, cluster_edges) ==
    IF cluster_edges = << >> THEN d
    ELSE CountsFrom(DictAdd(d, Head(cluster_edges)[1], Head(cluster_edges)[2]),
                    Tail(cluster_edges))

CoOccurrenceCounts(nodes_q, edges_q, cluster) ==
    CountsFrom(<< >>, ClusterEdges(nodes_q, edges_q, cluster))

\* mutant: a descending sort that puts a later equal item first
InsertDescUnstable(sorted, item) ==
    LET k == Cardinality({ i \in 1..Len(sorted) : sorted[i][2] > item[2] })
    IN  SubSeq(sorted, 1, k) \o <<item>> \o SubSeq(sorted, k + 1, Len(sorted))

\* sorted(items, key=lambda x: x[1], reverse=True): stable, descending
InsertDesc(sorted, item) ==
    LET k == Cardinality({ i \in 1..Len(sorted) : sorted[i][2] >= item[2] })
    IN  SubSeq(sorted, 1, k) \o <<item>> \o SubSeq(sorted, k + 1, Len(sorted))

RECURSIVE SortFrom(_, _)
SortFrom(sorted, items) ==
    IF items = << >> THEN sorted
    ELSE SortFrom(InsertDesc(sorted, Head(items)), Tail(items))

SortedDesc(items) == SortFrom(<< >>, items)

TopN == 2

TopCoOccurrences(counts) == Take(SortedDesc(counts), TopN)

\* mutant: the share is not scaled to a percentage
PercentageFraction(cluster_count, total_nodes) ==
    [num |-> cluster_count, den |-> total_nodes]

\* (cluster_count / total_nodes) * 100
Percentage(cluster_count, total_nodes) ==
    [num |-> cluster_count * 100, den |-> total_nodes]

TributaryStats(nodes_q, edges_q) ==
    LET total_nodes == Len(nodes_q)
        unique_clusters == UniqueClusters(nodes_q)
    IN  [cluster \in Range(unique_clusters) |->
            LET cluster_nodes == SelectSeq(nodes_q, LAMBDA n : n.cluster_name = cluster)
                cluster_count == Len(cluster_nodes)
            IN  [count |-> cluster_count,
                 percentage |-> Percentage(cluster_count, total_nodes),
                 co_occurrences |->
                     TopCoOccurrences(CoOccurrenceCounts(nodes_q, edges_q, cluster))]]

calculate_river_flow_data(nodes, edges, selected_quarter) ==
    LET nodes_q == FilterQuarter(nodes, selected_quarter)
        edges_q == FilterQuarter(edges, selected_quarter)
        total_nodes == Len(nodes_q)
        total_edges == Len(edges_q)
        connected_nodes == ConnectedNodes(nodes_q, edges_q)
        connected_count == Len(connected_nodes)
    IN  [selected_quarter |-> selected_quarter,
         total_nodes |-> total_nodes,
         total_edges |-> total_edges,
         connected_count |-> connected_count,
         co_occurrence_rate |-> CoOccurrenceRate(connected_count, total_nodes),
         tributary_stats |-> TributaryStats(nodes_q, edges_q),
         nodes_quarter |-> nodes_q,
         edges_quarter |-> edges_q,
         connected_nodes |-> connected_nodes]

\* before the first call there is no result
NoRiverData == [selected_quarter |-> None]

\* ------------------------------------- create_dynamic_visualization_html
\* x_rot = -y, y_rot = x
Rot(px, py) == <<-py, px>>

custom_cmap ==
    << "#1f77b4", "#808000", "#ff7f0e", "#d62728", "#9467bd", "#8c564b", "#17becf" >>

\* {cluster: custom_cmap[i % len(custom_cmap)] for i, cluster in enumerate(unique_clusters)}
ClusterColorMap(unique_clusters) ==
    [c \in Range(unique_clusters) |->
        LET i == CHOOSE i \in 1..Len(unique_clusters) : unique_clusters[i] = c
        IN  custom_cmap[((i - 1) % Len(custom_cmap)) + 1]]

\* the loop over the nodes that names the clusters of one edge's endpoints:
\* if node_coord == start_coord ... elif node_coord == end_coord ...
RECURSIVE ResolveFrom(_, _, _, _)
ResolveFrom(nodes, start_coord, end_coord, acc) ==
    IF nodes = << >> THEN acc
    ELSE LET node == Head(nodes)
             node_coord == Rot(node.x, node.y)
         IN  ResolveFrom(Tail(nodes), start_coord, end_coord,
                 IF node_coord = start_coord
                 THEN [acc EXCEPT !.start_cluster = node.cluster_name]
                 ELSE IF node_coord = end_coord
                 THEN [acc EXCEPT !.end_cluster = node.cluster_name]
                 ELSE acc)

ResolveClusters(nodes, start_coord, end_coord) ==
    ResolveFrom(nodes, start_coord, end_coord,
                [start_cluster |-> Unknown, end_cluster |-> Unknown])

\* one record of edge_data; hover_text keeps the values the template prints
EdgeRecord(nodes, edge) ==
    LET start_coord == Rot(edge.x0, edge.y0)
        end_coord == Rot(edge.x1, edge.y1)
        names == ResolveClusters(nodes, start_coord, end_coord)
    IN  [x0 |-> start_coord[1], y0 |-> start_coord[2],
         x1 |-> end_coord[1], y1 |-> end_coord[2],
         weight |-> edge.weight,
         hover_text |-> [start_cluster |-> names.start_cluster,
                         end_cluster |-> names.end_cluster,
                         score |-> edge.weight,
                         sentiment |-> edge.sentiment]]

EdgeData(nodes, edges) == [k \in 1..Len(edges) |-> EdgeRecord(nodes, edges[k])]

\* int(v) for a number v = n / d (d > 0): truncation toward zero
Truncate(n, d) == IF n >= 0 THEN n \div d ELSE -((-n) \div d)

Value(v) == [exc |-> None, value |-> v]
Fault(exc) == [exc |-> exc, value |-> 0]

\* mutant: int(round(...))
AvgScoreRounded(avg_score) ==
    IF avg_score.tag \in {"num", "set"}
    THEN Value(Truncate(2 * avg_score.n + avg_score.d, 2 * avg_score.d))
    ELSE Fault("TypeError")

\* if isinstance(avg_score, set): int(next(iter(avg_score)))
\* else: int(float(avg_score))
AvgScoreDisplay(avg_score) ==
    CASE avg_score.tag = "set" -> Value(Truncate(avg_score.n, avg_score.d))
      [] avg_score.tag = "emptyset" -> Fault("StopIteration")
      [] avg_score.tag = "num" -> Value(Truncate(avg_score.n, avg_score.d))
      [] avg_score.tag \in {"str", "nan"} -> Fault("ValueError")
      [] OTHER -> Fault("TypeError")

\* try: float(sentiment) if pd.notna(sentiment) else 0.0; except: 0.0
ComplexSentiment(sentiment) ==
    IF sentiment.tag = "num" THEN Value(sentiment) ELSE Value(Number(0, 1))

\* float(node['sentiment'])
SimpleSentiment(sentiment) ==
    CASE sentiment.tag \in {"num", "nan"} -> Value(sentiment)
      [] sentiment.tag = "str" -> Fault("ValueError")
      [] OTHER -> Fault("TypeError")

\* the rows in the order the node records are built: cluster by cluster
RECURSIVE ByCluster(_, _)
ByCluster(nodes, clusters) ==
    IF clusters = << >> THEN << >>
    ELSE SelectSeq(nodes, LAMBDA n : Head(clusters) # NA /\ n.cluster_name = Head(clusters))
         \o ByCluster(nodes, Tail(clusters))

\* the exception of the first row whose record cannot be built, or None
RECURSIVE FirstFault(_)
FirstFault(faults) ==
    IF faults = << >> THEN None
    ELSE IF Head(faults) # None THEN Head(faults)
    ELSE FirstFault(Tail(faults))

ComplexNodeFault(nodes, clusters) ==
    LET rows == ByCluster(nodes, clusters)
    IN  FirstFault([k \in 1..Len(rows) |-> AvgScoreDisplay(rows[k].avg_score).exc])

SimpleNodeFault(nodes, clusters) ==
    LET rows == ByCluster(nodes, clusters)
    IN  FirstFault([k \in 1..Len(rows) |->
            IF AvgScoreDisplay(rows[k].avg_score).exc # None
            THEN AvgScoreDisplay(rows[k].avg_score).exc
            ELSE SimpleSentiment(rows[k].sentiment).exc])

\* node_data: for cluster in unique_clusters, for each node of the cluster
RECURSIVE NodeData(_, _, _)
NodeData(nodes, clusters, color_map) ==
    IF clusters = << >> THEN << >>
    ELSE LET cluster == Head(clusters)
             cluster_data == SelectSeq(nodes, LAMBDA n : n.cluster_name = cluster)
         IN  [k \in 1..Len(cluster_data) |->
                 LET node == cluster_data[k]
                 IN  [x |-> Rot(node.x, node.y)[1], y |-> Rot(node.x, node.y)[2],
                      size |-> node.scaled_size,
                      color |-> color_map[cluster],
                      cluster |-> cluster,
                      hover_text |->
                        [avg_score_display |-> AvgScoreDisplay(node.avg_score).value,
                         sentiment_value |-> ComplexSentiment(node.sentiment).value]]]
             \o NodeData(nodes, Tail(clusters), color_map)

\* np.average(values, weights=weights): sum(v * w) / sum(w); numpy raises
\* ZeroDivisionError when the weights sum to zero (den = 0 here)
np_average(values, weights) ==
    [num |-> SumSeq([k \in 1..Len(values) |-> values[k] * weights[k]]),
     den |-> SumSeq(weights)]

\* distinct non-null cluster names in the order of their first row
RECURSIVE AppearanceOrder(_, _)
AppearanceOrder(nodes, seen) ==
    IF nodes = << >> THEN seen
    ELSE AppearanceOrder(Tail(nodes),
             IF Head(nodes).cluster_name = NA \/ Head(nodes).cluster_name \in Range(seen)
             THEN seen ELSE Append(seen, Head(nodes).cluster_name))

\* mutant: groupby(sort=False), the groups in the order of their first row
CentroidsByAppearance(nodes) ==
    LET groups == AppearanceOrder(nodes, << >>)
    IN  [k \in 1..Len(groups) |->
            LET g == SelectSeq(nodes, LAMBDA n : n.cluster_name = groups[k])
                w == [j \in 1..Len(g) |-> g[j].scaled_size]
            IN  [cluster_name |-> groups[k],
                 x |-> np_average([j \in 1..Len(g) |-> Rot(g[j].x, g[j].y)[1]], w),
                 y |-> np_average([j \in 1..Len(g) |-> Rot(g[j].x, g[j].y)[2]], w)]]

\* groupby('cluster_name').apply(...): one row per non-null cluster, sorted
Centroids(nodes) ==
    LET groups == UniqueClusters(nodes)
    IN  [k \in 1..Len(groups) |->
            LET g == SelectSeq(nodes, LAMBDA n : n.cluster_name = groups[k])
                w == [j \in 1..Len(g) |-> g[j].scaled_size]
            IN  [cluster_name |-> groups[k],
                 x |-> np_average([j \in 1..Len(g) |-> Rot(g[j].x, g[j].y)[1]], w),
                 y |-> np_average([j \in 1..Len(g) |-> Rot(g[j].x, g[j].y)[2]], w)]]

\* angle_offset[i] = i * (arc / n) + pi / n, as a rational multiple of pi with
\* arc = (arc_num / ArcDen) * pi
ArcDen == 5
ComplexArcNum == 6
SimpleArcNum == 11
AngleOffset(i, n, arc_num) == [num |-> arc_num * i + ArcDen, den |-> ArcDen * n]

\* radius_offset in hundredths
ComplexRadius == 27
SimpleRadius == 40

\* label_data: the centroid, displaced by radius along angle
LabelData(centroids, color_map, arc_num, radius) ==
    [k \in 1..Len(centroids) |->
        [centroid_x |-> centroids[k].x,
         centroid_y |-> centroids[k].y,
         angle |-> AngleOffset(k - 1, Len(centroids), arc_num),
         radius |-> radius,
         text |-> centroids[k].cluster_name,
         color |-> color_map[centroids[k].cluster_name]]]

NoViz ==
    [kind |-> None, exc |-> None, edge_data |-> << >>, node_data |-> << >>,
     label_data |-> << >>, cluster_color_map |-> << >>]

Raised(exc) == [NoViz EXCEPT !.kind = "raise", !.exc = exc]

\* mutant: the function goes on without looking at the number of nodes
NoDataUnchecked(nodes_q) == FALSE

\* if len(nodes_q) == 0: return the 'No data available' block
NoData(nodes_q) == Len(nodes_q) = 0

create_dynamic_visualization_html(data) ==
    LET nodes_q == data.nodes_quarter
        edges_q == data.edges_quarter
        unique_clusters == UniqueClusters(nodes_q)
        cluster_color_map == ClusterColorMap(unique_clusters)
        centroids == Centroids(nodes_q)
    IN  IF NoData(nodes_q) THEN [NoViz EXCEPT !.kind = "placeholder"]
        ELSE IF ComplexNodeFault(nodes_q, unique_clusters) # None
        THEN Raised(ComplexNodeFault(nodes_q, unique_clusters))
        ELSE IF \E k \in 1..Len(centroids) : centroids[k].x.den = 0
        THEN Raised("ZeroDivisionError")
        ELSE IF Len(centroids) = 0
        THEN Raised("ZeroDivisionError")
        ELSE [kind |-> "html", exc |-> None,
              edge_data |-> EdgeData(nodes_q, edges_q),
              node_data |-> NodeData(nodes_q, unique_clusters, cluster_color_map),
              label_data |-> LabelData(centroids, cluster_color_map, ComplexArcNum, ComplexRadius),
              cluster_color_map |-> cluster_color_map]

\* ------------------------------------------------ getResponsiveTraces
HoverDensity == 20
MinPoints == 5

\* coordinates are in units of 1 / CoordScale
CoordScale == 4

RECURSIVE IsqrtFrom(_, _)
IsqrtFrom(n, r) == IF (r + 1) * (r + 1) > n THEN r ELSE IsqrtFrom(n, r + 1)

\* Math.floor(Math.sqrt(v)) for an integer v >= 0
FloorSqrt(v) == IsqrtFrom(v, 0)

Max(a, b) == IF a >= b THEN a ELSE b

\* mutant: the product is rounded up
NumPointsCeil(edge) ==
    LET dx == edge.x1 - edge.x0
        dy == edge.y1 - edge.y0
        v == HoverDensity * HoverDensity * (dx * dx + dy * dy)
        r == FloorSqrt(v)
        up == IF r * r = v THEN r ELSE r + 1
    IN  Max(MinPoints, (up + CoordScale - 1) \div CoordScale)

\* Math.max(5, Math.floor(edgeLength * 20)), edgeLength = sqrt(dx^2 + dy^2)
NumPoints(edge) ==
    LET dx == edge.x1 - edge.x0
        dy == edge.y1 - edge.y0
    IN  Max(MinPoints,
            FloorSqrt(HoverDensity * HoverDensity * (dx * dx + dy * dy)) \div CoordScale)

\* mutant: t = i / numPoints, which stops short of the end of the edge
HoverPointsOpen(edge) ==
    LET n == NumPoints(edge)
        dx == edge.x1 - edge.x0
        dy == edge.y1 - edge.y0
    IN  [i \in 1..n |->
            [x |-> [num |-> edge.x0 * n + (i - 1) * dx, den |-> n],
             y |-> [num |-> edge.y0 * n + (i - 1) * dy, den |-> n],
             text |-> edge.hover_text]]

\* for (i = 0; i < numPoints; i++): t = i / (numPoints - 1), x = x0 + t * dx
HoverPoints(edge) ==
    LET n == NumPoints(edge)
        dx == edge.x1 - edge.x0
        dy == edge.y1 - edge.y0
    IN  [i \in 1..n |->
            [x |-> [num |-> edge.x0 * (n - 1) + (i - 1) * dx, den |-> n - 1],
             y |-> [num |-> edge.y0 * (n - 1) + (i - 1) * dy, den |-> n - 1],
             text |-> edge.hover_text]]

\* edgeData.forEach(...): the points of all edges, in edge order
RECURSIVE HoverLayer(_)
HoverLayer(edgeData) ==
    IF edgeData = << >> THEN << >>
    ELSE HoverPoints(Head(edgeData)) \o HoverLayer(Tail(edgeData))

NoTraces == [done |-> FALSE, edge_lines |-> 0, hover |-> << >>]

getResponsiveTraces(edgeData) ==
    [done |-> TRUE, edge_lines |-> Len(edgeData), hover |-> HoverLayer(edgeData)]

\* ----------------------------------------- pages/5_Cocurrence_Mapping.py
\* node_coords: both (rotated) endpoints of every edge of the table
RECURSIVE node_coords(_)
node_coords(edges) ==
    IF edges = << >> THEN {}
    ELSE LET edge == Head(edges)
         IN  {Rot(edge.x0, edge.y0), Rot(edge.x1, edge.y1)} \cup node_coords(Tail(edges))

has_edge(row, coords) == Rot(row.x, row.y) \in coords

\* df_nodes[df_nodes.apply(has_edge, axis=1)]
NodesConnected(nodes, edges) ==
    LET coords == node_coords(edges)
    IN  SelectSeq(nodes, LAMBDA row : has_edge(row, coords))

\* node_data of the simple page: a null cluster matches no row, size / 2.5
RECURSIVE SimpleNodeData(_, _, _)
SimpleNodeData(nodes, clusters, color_map) ==
    IF clusters = << >> THEN << >>
    ELSE LET cluster == Head(clusters)
             cluster_data ==
                 SelectSeq(nodes, LAMBDA n : cluster # NA /\ n.cluster_name = cluster)
         IN  [k \in 1..Len(cluster_data) |->
                 LET node == cluster_data[k]
                 IN  [x |-> Rot(node.x, node.y)[1], y |-> Rot(node.x, node.y)[2],
                      size |-> [num |-> node.scaled_size * 2, den |-> 5],
                      color |-> color_map[cluster],
                      cluster |-> cluster,
                      hover_text |->
                        [avg_score_display |-> AvgScoreDisplay(node.avg_score).value,
                         sentiment_value |-> SimpleSentiment(node.sentiment).value]]]
             \o SimpleNodeData(nodes, Tail(clusters), color_map)

NoSimple ==
    [kind |-> None, exc |-> None, total_nodes |-> 0, connected_nodes |-> 0,
     rate |-> [num |-> 0, den |-> 1],
     edge_data |-> << >>, node_data |-> << >>, label_data |-> << >>]

SimpleRaised(exc) == [NoSimple EXCEPT !.kind = "raise", !.exc = exc]

\* the page script from the loaded tables to the payload handed to the HTML
run_simple(nodes, edges) ==
    LET df_nodes_connected == NodesConnected(nodes, edges)
        total_nodes == Len(nodes)
        connected_nodes == Len(df_nodes_connected)
        names == { df_nodes_connected[i].cluster_name : i \in 1..Len(df_nodes_connected) }
        \* sorted(df_nodes_connected['cluster_name'].unique()), nulls not dropped
        unique_clusters == IF names = {NA} THEN <<NA>> ELSE SortedNames(names)
        cluster_color_map == ClusterColorMap(unique_clusters)
        centroids == Centroids(df_nodes_connected)
    IN  IF total_nodes = 0
        THEN SimpleRaised("ZeroDivisionError")
        ELSE IF NA \in names /\ Cardinality(names) > 1
        THEN SimpleRaised("TypeError")
        ELSE IF SimpleNodeFault(df_nodes_connected, unique_clusters) # None
        THEN SimpleRaised(SimpleNodeFault(df_nodes_connected, unique_clusters))
        ELSE IF \E k \in 1..Len(centroids) : centroids[k].x.den = 0
        THEN SimpleRaised("ZeroDivisionError")
        ELSE IF Len(centroids) = 0
        THEN SimpleRaised("ZeroDivisionError")
        ELSE [kind |-> "html", exc |-> None,
              total_nodes |-> total_nodes,
              connected_nodes |-> connected_nodes,
              rate |-> [num |-> connected_nodes * 100, den |-> total_nodes],
              edge_data |-> EdgeData(df_nodes_connected, edges),
              node_data |-> SimpleNodeData(df_nodes_connected, unique_clusters, cluster_color_map),
              label_data |-> LabelData(centroids, cluster_color_map, SimpleArcNum, SimpleRadius)]

\* ------------------------------------------------------------------ state
VARIABLES
    df_nodes,       \* the node table
    df_edges,       \* the edge table
    page,           \* which page script runs on the tables
    river_data,     \* result of calculate_river_flow_data
    viz,            \* result of create_dynamic_visualization_html
    traces,         \* what getResponsiveTraces builds from viz.edge_data
    simple,         \* payload of the simple page
    simple_traces,  \* what getResponsiveTraces builds on the simple page
    slider_index,   \* st.session_state.slider_index
    backup_quarter_slider,  \* the value held by the select_slider widget
    pc,             \* "run": a script run is due; "idle": page rendered; "fault"
    event,          \* the widget that triggered the latest script run
    calls,          \* the invocations of calculate_river_flow_data under way
    columns,        \* whether each loaded table has a sentiment column, and
                    \* whether the script has dealt with a missing one
    notices,        \* the st.warning messages of the page run, in order
    passes,         \* the period of each calculate_river_flow_data call of the
                    \* latest script run, in order
    requested       \* the index the latest navigation event asked for

vars == <<df_nodes, df_edges, page, river_data, viz, traces, simple, simple_traces,
          slider_index, backup_quarter_slider, pc, event, calls, columns, notices,
          passes, requested>>

session == <<slider_index, backup_quarter_slider, pc, event>>

others == <<calls, columns, notices>>

history == <<passes, requested>>

\* ---------------------------------------------------------- period list
\* mutant: the quarter column as loaded
quartersAsLoaded(nodes) == [i \in 1..Len(nodes) |-> nodes[i].quarter]

\* quarters = sorted(df_nodes['quarter'].unique())
quarters(nodes) ==
    SelectSeq(QuarterKeys, LAMBDA q : \E i \in 1..Len(nodes) : nodes[i].quarter = q)

\* f"{q[:4]}Q{q[-1]}": the first four characters, "Q", the last character
QuarterLabel(q) == IF q = "2024-1" THEN "2024Q1" ELSE q

quarter_labels(nodes) ==
    [i \in 1..Len(quarters(nodes)) |-> QuarterLabel(quarters(nodes)[i])]

\* mutant: the label itself is taken for the raw key
reverse_label_map_labels(nodes) == [l \in Range(quarter_labels(nodes)) |-> l]

\* {label: q for q in quarters}: a later key replaces an earlier one
reverse_label_map(nodes) ==
    LET qs == quarters(nodes)
    IN  [l \in Range(quarter_labels(nodes)) |->
            qs[CHOOSE i \in 1..Len(qs) :
                  /\ QuarterLabel(qs[i]) = l
                  /\ \A j \in 1..Len(qs) : QuarterLabel(qs[j]) = l => j <= i]]

NumPeriods == Len(quarter_labels(df_nodes))

NoEvent == [widget |-> None, value |-> 0]

\* no widget has been used in the session
NoRequest == [made |-> FALSE, index |-> 0]

Request(index) == [made |-> TRUE, index |-> index]

\* ----------------------------------------------------------------- inputs
\* Node slot i sits at its own position; slot MaxNodes never holds a node, so
\* an edge ending there has a dangling endpoint.
SlotPos(i) == <<i % 2, i \div 2>>

\* rows of a table grouped by quarter: the first k rows in the first quarter
SplitQuarter(i, k) == IF i <= k THEN FirstQuarter ELSE LastQuarter

ConnNodeTables ==
    { [i \in 1..n |-> NodeRow(SplitQuarter(i, k), SlotPos(i - 1),
                              ClusterOrder[(i % 2) + 1], 1)] :
        <<n, k>> \in { nk \in (0..MaxNodes) \X (0..MaxNodes) : nk[2] <= nk[1] } }

ConnEdgeRows ==
    { EdgeRow(q, SlotPos(a), SlotPos(b), 1) :
        <<q, a, b>> \in Quarters \X (0..MaxNodes) \X (0..MaxNodes) }

SeqsUpTo(S, n) == UNION { [1..m -> S] : m \in 0..n }

ConnInputs == ConnNodeTables \X SeqsUpTo(ConnEdgeRows, MaxConnEdges)

\* Node tables with every choice of quarter and cluster_name (NA included),
\* without edges.
ClusNodeTables ==
    UNION { { [i \in 1..n |-> NodeRow(a[i][1], SlotPos(i - 1), a[i][2], 1)] :
                a \in [1..n -> Quarters \X {ClusterOrder[1], ClusterOrder[2], NA}] } :
            n \in 0..MaxNodes }

ClusInputs == ClusNodeTables \X { << >> }

\* Four nodes of one quarter under each clustering, and up to MaxEdges
\* weighted edges between them: three leave or enter node 0, one joins node 1
\* to a position that holds no node.
RankClusterings ==
    { << ClusterOrder[1], ClusterOrder[2], ClusterOrder[3], ClusterOrder[4] >>,
      << ClusterOrder[1], ClusterOrder[1], ClusterOrder[2], NA >> }

RankNodeTables ==
    { [i \in 1..Len(cl) |-> NodeRow(FirstQuarter, SlotPos(i - 1), cl[i], 1)] :
        cl \in RankClusterings }

RankPairs == { <<0, 1>>, <<2, 0>>, <<0, 3>>, <<1, 4>> }

RankEdgeRows ==
    { EdgeRow(FirstQuarter, SlotPos(p[1]), SlotPos(p[2]), w) :
        <<p, w>> \in RankPairs \X (1..MaxWeight) }

RankInputs == RankNodeTables \X SeqsUpTo(RankEdgeRows, MaxEdges)

\* Single-edge tables over the connectivity rows, for the edge annotations.
EnrichInputs == ConnNodeTables \X ({ << >> } \cup { <<r>> : r \in ConnEdgeRows })

\* Node tables of one quarter with every choice of cluster_name and
\* scaled_size, without edges, for the centroids.
SizedNodeTables ==
    UNION { { [i \in 1..n |-> NodeRow(FirstQuarter, SlotPos(i - 1), a[i][1], a[i][2])] :
                a \in [1..n -> {ClusterOrder[1], ClusterOrder[2], NA} \X (0..MaxSize)] } :
            n \in 0..MaxNodes }

CentroidInputs == SizedNodeTables \X { << >> }

\* One node, and up to MaxHoverEdges edges that leave it for any grid point.
HoverStart == <<1, 1>>

HoverEdgeRows ==
    { EdgeRow(FirstQuarter, HoverStart, <<px, py>>, 1) :
        <<px, py>> \in (0..GridMax) \X (0..GridMax) }

HoverInputs ==
    { << NodeRow(FirstQuarter, HoverStart, ClusterOrder[1], 1) >> }
        \X SeqsUpTo(HoverEdgeRows, MaxHoverEdges)

\* n nodes of one quarter, each a cluster of its own, joined in a ring of n
\* edges (so that every node is connected), for the label layout.
LayoutNodes(n) == [i \in 1..n |-> NodeRow(FirstQuarter, SlotPos(i - 1), NameOrder[i], 1)]

LayoutEdges(n) ==
    [i \in 1..n |-> EdgeRow(FirstQuarter, SlotPos(i - 1), SlotPos(i % n), 1)]

LayoutInputs == { <<LayoutNodes(n), LayoutEdges(n)>> : n \in 1..MaxClusters }

\* ------------------------------------------- inputs: node record cells
\* avg_score cells: whole and fractional numbers, a negative one, one-element
\* sets, and what is no number at all
ScalarCells ==
    { Number(42, 1), Number(427, 10), Number(-7, 2), SetOf(42, 1), SetOf(427, 10),
      ListOf(42, 1), Cell("emptyset"), Cell("str"), Cell("none"), Cell("nan") }

\* sentiment cells of a numeric column
SentimentCells == { Number(1, 2), Number(-1, 4), Cell("nan") }

\* n nodes on the ring, row k carrying the cells under study
RecordNodes(n, k, avg_score, sentiment) ==
    [i \in 1..n |->
        IF i = k
        THEN [NodeRow(FirstQuarter, SlotPos(i - 1), NameOrder[i], 1)
                EXCEPT !.avg_score = avg_score, !.sentiment = sentiment]
        ELSE NodeRow(FirstQuarter, SlotPos(i - 1), NameOrder[i], 1)]

Unhandled(nodes_has_sentiment, edges_has_sentiment) ==
    [nodes_has_sentiment |-> nodes_has_sentiment,
     edges_has_sentiment |-> edges_has_sentiment, handled |-> FALSE]

ScalarInputs ==
    UNION { { << RecordNodes(n, k, a, s), e, Unhandled(TRUE, TRUE) >> :
                k \in 1..n, a \in ScalarCells, s \in SentimentCells,
                e \in { << >>, LayoutEdges(n) } } : n \in 1..MaxRecords }

\* a table read from a file without the column has no sentiment cell
WithoutSentiment(df) == [i \in 1..Len(df) |-> [df[i] EXCEPT !.sentiment = Absent]]

MissingInputs ==
    { << IF ns THEN LayoutNodes(n) ELSE WithoutSentiment(LayoutNodes(n)),
         IF es THEN LayoutEdges(m) ELSE WithoutSentiment(LayoutEdges(m)),
         Unhandled(ns, es) >> :
        n \in 0..MaxRecords, m \in 0..MaxRecords, ns \in BOOLEAN, es \in BOOLEAN }

\* One node in each of the chosen quarters, for the period navigation.
NavKeys == SubSeq(QuarterKeys, 1, MaxPeriods)

\* ... in ascending order of the keys, or in descending order with two
\* nodes in each quarter
NavNodeTables ==
    { LET ks == SelectSeq(NavKeys, LAMBDA q : q \in S)
      IN  [i \in 1..Len(ks) |-> NodeRow(ks[i], <<0, 0>>, ClusterOrder[1], 1)] :
        S \in SUBSET Range(NavKeys) }
    \cup
    { LET ks == SelectSeq(NavKeys, LAMBDA q : q \in S)
      IN  [i \in 1..(2 * Len(ks)) |->
              NodeRow(ks[Len(ks) - ((i - 1) \div 2)], <<0, 0>>, ClusterOrder[1], 1)] :
        S \in SUBSET Range(NavKeys) }

NavInputs == NavNodeTables \X { << >> }

\* a new session: slider_index defaults to the latest quarter, and the
\* slider widget is created with that value
InitSession ==
    /\ slider_index = NumPeriods - 1
    /\ backup_quarter_slider = NumPeriods - 1
    /\ pc = "run"
    /\ event = NoEvent

\* the locals of one invocation of calculate_river_flow_data
NoCall ==
    [pc |-> "ready", selected_quarter |-> None, nodes_q |-> << >>, edges_q |-> << >>,
     node_coords_q |-> {}, connected_nodes |-> << >>, tributary_stats |-> << >>,
     result |-> NoRiverData]

Callers == {1, 2}

\* both tables come with their sentiment column: nothing to substitute
WithSentiment ==
    [nodes_has_sentiment |-> TRUE, edges_has_sentiment |-> TRUE, handled |-> TRUE]

InitResults ==
    /\ InitSession
    /\ calls = [i \in Callers |-> NoCall]
    /\ notices = << >>
    /\ passes = << >>
    /\ requested = NoRequest
    /\ river_data = NoRiverData
    /\ viz = NoViz
    /\ traces = NoTraces
    /\ simple = NoSimple
    /\ simple_traces = NoTraces

InitRiver ==
    /\ \E in \in ConnInputs \cup ClusInputs \cup RankInputs :
          df_nodes = in[1] /\ df_edges = in[2]
    /\ page = "complex"
    /\ columns = WithSentiment
    /\ InitResults

Init ==
    /\ \E in \in EnrichInputs \cup CentroidInputs \cup HoverInputs \cup LayoutInputs :
          df_nodes = in[1] /\ df_edges = in[2]
    /\ page \in {"complex", "simple"}
    /\ columns = WithSentiment
    /\ InitResults

\* ---------------------------------------------------------------- actions
\* df['sentiment'] = 0.0
DefaultSentiment(df) == [i \in 1..Len(df) |-> [df[i] EXCEPT !.sentiment = Number(0, 1)]]

\* st.warning(...) after the substitution, on the simple page only
Notices(p, has_sentiment, table) ==
    IF p = "simple" /\ ~has_sentiment THEN << table >> ELSE << >>

\* if 'sentiment' not in df_nodes.columns: ...; the same for df_edges
HandleMissingSentiment ==
    /\ ~columns.handled
    /\ df_nodes' = IF columns.nodes_has_sentiment THEN df_nodes
                   ELSE DefaultSentiment(df_nodes)
    /\ df_edges' = IF columns.edges_has_sentiment THEN df_edges
                   ELSE DefaultSentiment(df_edges)
    /\ notices' = notices \o Notices(page, columns.nodes_has_sentiment, "nodes")
                          \o Notices(page, columns.edges_has_sentiment, "edges")
    /\ columns' = [columns EXCEPT !.handled = TRUE]
    /\ UNCHANGED <<page, river_data, viz, traces, simple, simple_traces, session, calls,
                   history>>

\* mutant: the quarter's rows are selected in place, in the loaded tables
CalculateInPlace(q) ==
    /\ page = "complex"
    /\ river_data' = calculate_river_flow_data(df_nodes, df_edges, q)
    /\ df_nodes' = FilterQuarter(df_nodes, q)
    /\ df_edges' = FilterQuarter(df_edges, q)
    /\ viz' = NoViz
    /\ traces' = NoTraces
    /\ UNCHANGED <<page, simple, simple_traces>>
    /\ UNCHANGED <<session, others, history>>

\* calculate_river_flow_data(df_nodes, df_edges, q); what was rendered for an
\* earlier call is gone
Calculate(q) ==
    /\ page = "complex"
    /\ columns.handled
    /\ river_data' = calculate_river_flow_data(df_nodes, df_edges, q)
    /\ viz' = NoViz
    /\ traces' = NoTraces
    /\ UNCHANGED <<df_nodes, df_edges, page, simple, simple_traces>>
    /\ UNCHANGED <<session, others, history>>

\* create_dynamic_visualization_html(river_data, selected_label)
Visualize ==
    /\ page = "complex"
    /\ river_data.selected_quarter # None
    /\ viz.kind = None
    /\ viz' = create_dynamic_visualization_html(river_data)
    /\ UNCHANGED <<df_nodes, df_edges, page, river_data, traces, simple, simple_traces>>
    /\ UNCHANGED <<session, others, history>>

\* the script of the rendered HTML builds its traces
Traces ==
    /\ viz.kind = "html"
    /\ ~traces.done
    /\ traces' = getResponsiveTraces(viz.edge_data)
    /\ UNCHANGED <<df_nodes, df_edges, page, river_data, viz, simple, simple_traces>>
    /\ UNCHANGED <<session, others, history>>

\* the simple page's script
RunSimple ==
    /\ page = "simple"
    /\ columns.handled
    /\ simple.kind = None
    /\ simple' = run_simple(df_nodes, df_edges)
    /\ UNCHANGED <<df_nodes, df_edges, page, river_data, viz, traces, simple_traces>>
    /\ UNCHANGED <<session, others, history>>

SimpleTraces ==
    /\ simple.kind = "html"
    /\ ~simple_traces.done
    /\ simple_traces' = getResponsiveTraces(simple.edge_data)
    /\ UNCHANGED <<df_nodes, df_edges, page, river_data, viz, traces, simple>>
    /\ UNCHANGED <<session, others, history>>

\* ------------------------------------------------------ period navigation
selected_quarter == reverse_label_map(df_nodes)[quarter_labels(df_nodes)[slider_index + 1]]

Min(a, b) == IF a <= b THEN a ELSE b

\* mutant: a result computed earlier is kept
RecalculateCached(previous, quarter) ==
    IF previous.selected_quarter # None THEN previous
    ELSE calculate_river_flow_data(df_nodes, df_edges, quarter)

\* river_data = calculate_river_flow_data(df_nodes, df_edges, selected_quarter):
\* the assignment replaces what river_data held
Recalculate(previous, quarter) == calculate_river_flow_data(df_nodes, df_edges, quarter)

\* a script run that no button triggered.  With no quarter the lookup
\* quarter_labels[slider_index] raises IndexError.  A run that reaches the end
\* recalculates river_data and renders the visualization for it.  The select_slider returns
\* either its new default (the widget is re-created when its value argument
\* changed) or the value it held (the widget is identified by its key); a
\* value that differs from slider_index replaces it and the script reruns.
ScriptRun ==
    /\ page = "complex"
    /\ pc = "run"
    /\ event' = NoEvent
    /\ IF NumPeriods = 0
       THEN /\ pc' = "fault"
            /\ passes' = << >>
            /\ UNCHANGED <<slider_index, backup_quarter_slider, river_data, viz>>
       ELSE \E selected_index \in {slider_index, backup_quarter_slider} :
              /\ backup_quarter_slider' = selected_index
              /\ slider_index' = selected_index
              /\ IF selected_index # slider_index
                 THEN /\ pc' = "run"
                      /\ passes' = << selected_quarter >>
                      /\ UNCHANGED <<river_data, viz>>
                 ELSE /\ river_data' = Recalculate(river_data, selected_quarter)
                      /\ viz' = create_dynamic_visualization_html(river_data')
                      /\ pc' = IF viz'.kind = "raise" THEN "fault" ELSE "idle"
                      /\ passes' = << selected_quarter, selected_quarter >>
    /\ traces' = NoTraces
    /\ UNCHANGED <<df_nodes, df_edges, page, simple, simple_traces, others, requested>>

\* the script run a widget triggers: the first calculation is made for the
\* index the page showed, then the widget's branch assigns slider_index and
\* calls st.rerun()
Rerun(widget, value, index) ==
    /\ event' = [widget |-> widget, value |-> value]
    /\ slider_index' = index
    /\ pc' = "run"
    /\ passes' = << selected_quarter >>
    /\ requested' = Request(index)
    /\ UNCHANGED <<df_nodes, df_edges, page, river_data, viz, traces, simple, simple_traces,
                   others>>

\* timeline dot i; the dot of the current quarter is disabled
DotClick(i) ==
    /\ page = "complex"
    /\ pc = "idle"
    /\ i # slider_index
    /\ Rerun("q", i, i)
    /\ UNCHANGED backup_quarter_slider

\* mutant: Previous without the clamp at 0
PreviousIndexUnclamped(index) == index - 1

PreviousIndex(index) == Max(0, index - 1)

\* the "Previous" button
Previous ==
    /\ page = "complex"
    /\ pc = "idle"
    /\ Rerun("backup_prev", 0, PreviousIndex(slider_index))
    /\ UNCHANGED backup_quarter_slider

\* the "Next" button
NextButton ==
    /\ page = "complex"
    /\ pc = "idle"
    /\ Rerun("backup_next", 0, Min(NumPeriods - 1, slider_index + 1))
    /\ UNCHANGED backup_quarter_slider

\* the user moves the slider to v
SliderChange(v) ==
    /\ page = "complex"
    /\ pc = "idle"
    /\ v # backup_quarter_slider
    /\ backup_quarter_slider' = v
    /\ IF v # slider_index
       THEN Rerun("backup_quarter_slider", v, v)
       ELSE /\ event' = [widget |-> "backup_quarter_slider", value |-> v]
            /\ passes' = << selected_quarter, selected_quarter >>
            /\ requested' = Request(v)
            /\ UNCHANGED <<df_nodes, df_edges, page, river_data, viz, traces,
                           simple, simple_traces, slider_index, pc, others>>

InitNav ==
    /\ \E in \in NavInputs : df_nodes = in[1] /\ df_edges = in[2]
    /\ page = "complex"
    /\ columns = WithSentiment
    /\ InitResults

NextNav ==
    \/ ScriptRun
    \/ \E i \in 0..(NumPeriods - 1) : DotClick(i)
    \/ Previous
    \/ NextButton
    \/ \E v \in 0..(NumPeriods - 1) : SliderChange(v)

SpecNav == InitNav /\ [][NextNav]_vars

\* a script run that is due is executed
SpecNavFair == SpecNav /\ WF_vars(ScriptRun)

\* ------------------------------------------- concurrent recomputation
\* Two sessions run calculate_river_flow_data over the same tables, each
\* with its own locals, one statement group at a time.
Step(i, local) ==
    /\ calls' = [calls EXCEPT ![i] = local]
    /\ UNCHANGED <<df_nodes, df_edges, page, river_data, viz, traces, simple,
                   simple_traces, session, columns, notices, history>>

\* the call, for a quarter no other invocation is computing
Call(i, q) ==
    /\ calls[i].pc = "ready"
    /\ \A j \in Callers \ {i} : calls[j].selected_quarter # q
    /\ Step(i, [calls[i] EXCEPT !.pc = "filter", !.selected_quarter = q])

\* mutant: the rows of the quarter are selected in the shared tables
FilterRowsShared(i) ==
    /\ calls[i].pc = "filter"
    /\ df_nodes' = FilterQuarter(df_nodes, calls[i].selected_quarter)
    /\ df_edges' = FilterQuarter(df_edges, calls[i].selected_quarter)
    /\ calls' = [calls EXCEPT ![i] = [calls[i] EXCEPT !.pc = "coords",
                                      !.nodes_q = df_nodes', !.edges_q = df_edges']]
    /\ UNCHANGED <<page, river_data, viz, traces, simple, simple_traces, session,
                   columns, notices, history>>

\* nodes_q = df_nodes[...].copy(); edges_q = df_edges[...].copy()
FilterRows(i) ==
    /\ calls[i].pc = "filter"
    /\ Step(i, [calls[i] EXCEPT
                  !.pc = "coords",
                  !.nodes_q = FilterQuarter(df_nodes, calls[i].selected_quarter),
                  !.edges_q = FilterQuarter(df_edges, calls[i].selected_quarter)])

\* node_coords_q = set(); for each edge: add both endpoints
BuildCoords(i) ==
    /\ calls[i].pc = "coords"
    /\ Step(i, [calls[i] EXCEPT !.pc = "connect",
                                !.node_coords_q = node_coords_q(calls[i].edges_q)])

\* connected_nodes = nodes_q[nodes_q.apply(has_edge_q, axis=1)]
MarkConnected(i) ==
    /\ calls[i].pc = "connect"
    /\ Step(i, [calls[i] EXCEPT
                  !.pc = "stats",
                  !.connected_nodes =
                      SelectSeq(calls[i].nodes_q,
                                LAMBDA row : has_edge_q(row, calls[i].node_coords_q))])

\* the loop that fills tributary_stats
BuildStats(i) ==
    /\ calls[i].pc = "stats"
    /\ Step(i, [calls[i] EXCEPT
                  !.pc = "return",
                  !.tributary_stats = TributaryStats(calls[i].nodes_q, calls[i].edges_q)])

\* return {...}
Return(i) ==
    /\ calls[i].pc = "return"
    /\ Step(i, [calls[i] EXCEPT
                  !.pc = "done",
                  !.result =
                      [selected_quarter |-> calls[i].selected_quarter,
                       total_nodes |-> Len(calls[i].nodes_q),
                       total_edges |-> Len(calls[i].edges_q),
                       connected_count |-> Len(calls[i].connected_nodes),
                       co_occurrence_rate |->
                           CoOccurrenceRate(Len(calls[i].connected_nodes),
                                            Len(calls[i].nodes_q)),
                       tributary_stats |-> calls[i].tributary_stats,
                       nodes_quarter |-> calls[i].nodes_q,
                       edges_quarter |-> calls[i].edges_q,
                       connected_nodes |-> calls[i].connected_nodes]])

InitConc ==
    /\ \E in \in EnrichInputs : df_nodes = in[1] /\ df_edges = in[2]
    /\ page = "complex"
    /\ columns = WithSentiment
    /\ InitResults

NextConc ==
    \E i \in Callers :
        \/ \E q \in Quarters : Call(i, q)
        \/ FilterRows(i)
        \/ BuildCoords(i)
        \/ MarkConnected(i)
        \/ BuildStats(i)
        \/ Return(i)

SpecConc == InitConc /\ [][NextConc]_vars

\* ------------------------------------------ the page run from the load
InitRecords ==
    /\ \E in \in ScalarInputs \cup MissingInputs :
          df_nodes = in[1] /\ df_edges = in[2] /\ columns = in[3]
    /\ page \in {"complex", "simple"}
    /\ InitResults

NextRecords ==
    \/ HandleMissingSentiment
    \/ \E q \in Quarters : Calculate(q)
    \/ Visualize
    \/ RunSimple

SpecRecords == InitRecords /\ [][NextRecords]_vars

NextRiver == \E q \in Quarters : Calculate(q)

SpecRiver == InitRiver /\ [][NextRiver]_vars

Next ==
    \/ \E q \in Quarters : Calculate(q)
    \/ Visualize
    \/ Traces
    \/ RunSimple
    \/ SimpleTraces

Spec == Init /\ [][Next]_vars

\* ======================================================================
\* Properties of calculate_river_flow_data (checked under SpecRiver)
\* ======================================================================
Calculated == river_data.selected_quarter # None

\* rows of the input tables that belong to the selected period, by index
PeriodNodeIdx == { i \in 1..Len(df_nodes) : df_nodes[i].quarter = river_data.selected_quarter }
PeriodEdgeIdx == { j \in 1..Len(df_edges) : df_edges[j].quarter = river_data.selected_quarter }
NodePosOf(i) == <<df_nodes[i].x, df_nodes[i].y>>
StartOf(j) == <<df_edges[j].x0, df_edges[j].y0>>
EndOf(j) == <<df_edges[j].x1, df_edges[j].y1>>
PeriodEndpoints == { StartOf(j) : j \in PeriodEdgeIdx } \cup { EndOf(j) : j \in PeriodEdgeIdx }

RECURSIVE SumOver(_, _)
SumOver(S, f) ==
    IF S = {} THEN 0
    ELSE LET e == CHOOSE e \in S : TRUE IN f[e] + SumOver(S \ {e}, f)

RatIsZero(r) == r.num = 0 /\ r.den # 0
RatEq(a, b) == a.den # 0 /\ b.den # 0 /\ a.num * b.den = b.num * a.den
RatAdd(a, b) == [num |-> a.num * b.den + b.num * a.den, den |-> a.den * b.den]

RECURSIVE RatSumOver(_, _)
RatSumOver(S, f) ==
    IF S = {} THEN [num |-> 0, den |-> 1]
    ELSE LET e == CHOOSE e \in S : TRUE IN RatAdd(f[e], RatSumOver(S \ {e}, f))

\* C2: a node of the selected period is in connected_nodes iff its position is
\* the start or the end of at least one edge of the same period (edges of other
\* periods never count); connected_count is the number of distinct endpoint
\* positions that are node positions; 3 nodes and 1 edge joining two of them
\* give connected_count = 2.
C2_ConnectedIffEndpoint ==
    Calculated =>
        LET conn == { i \in PeriodNodeIdx :
                        \E j \in PeriodEdgeIdx : NodePosOf(i) = StartOf(j) \/ NodePosOf(i) = EndOf(j) }
        IN  /\ Range(river_data.connected_nodes) = { df_nodes[i] : i \in conn }
            /\ Len(river_data.connected_nodes) = Cardinality(conn)
            /\ river_data.connected_count =
                 Cardinality(PeriodEndpoints \cap { NodePosOf(i) : i \in PeriodNodeIdx })
            /\ ( /\ river_data.total_nodes = 3
                 /\ river_data.total_edges = 1
                 /\ \A j \in PeriodEdgeIdx :
                        /\ StartOf(j) # EndOf(j)
                        /\ {StartOf(j), EndOf(j)} \subseteq { NodePosOf(i) : i \in PeriodNodeIdx }
               ) => river_data.connected_count = 2

\* three nodes, one edge of the period joining two of them, and an edge of the
\* other period touching the third
C2_Witness ==
    /\ Calculated
    /\ river_data.total_nodes = 3
    /\ river_data.total_edges = 1
    /\ river_data.connected_count = 2
    /\ \E i \in PeriodNodeIdx :
          /\ NodePosOf(i) \notin PeriodEndpoints
          /\ df_nodes[i] \notin Range(river_data.connected_nodes)

\* an edge of another period ends on a node of the selected period, which stays
\* unconnected
C2_OtherPeriodWitness ==
    /\ Calculated
    /\ \E i \in PeriodNodeIdx : \E j \in (1..Len(df_edges)) \ PeriodEdgeIdx :
          /\ NodePosOf(i) = EndOf(j)
          /\ df_nodes[i] \notin Range(river_data.connected_nodes)

\* C3: 0 <= connected_count <= total_nodes, and co_occurrence_rate is 0
\* whenever total_nodes is 0.
C3_CountBounds ==
    Calculated =>
        /\ 0 <= river_data.connected_count
        /\ river_data.connected_count <= river_data.total_nodes
        /\ river_data.total_nodes = 0 => RatIsZero(river_data.co_occurrence_rate)

\* a period without nodes whose edges nevertheless carry endpoints
C3_Witness ==
    /\ Calculated
    /\ river_data.total_nodes = 0
    /\ river_data.total_edges > 0
    /\ RatIsZero(river_data.co_occurrence_rate)

\* the cluster a position resolves to within the period, if a node sits there
ResolvesTo(p, c) ==
    \E i \in PeriodNodeIdx : NodePosOf(i) = p /\ df_nodes[i].cluster_name = c

\* edges of the period that join a node of cluster c to a node of cluster d
Joining(c, d) ==
    { j \in PeriodEdgeIdx :
        \/ ResolvesTo(StartOf(j), c) /\ ResolvesTo(EndOf(j), d)
        \/ ResolvesTo(StartOf(j), d) /\ ResolvesTo(EndOf(j), c) }

EdgeWeight == [j \in 1..Len(df_edges) |-> df_edges[j].weight]

CountsOf(c) ==
    CoOccurrenceCounts(river_data.nodes_quarter, river_data.edges_quarter, c)

Keys(d) == { d[i][1] : i \in 1..Len(d) }
ValueOf(d, k) == IF k \in Keys(d) THEN (CHOOSE pr \in Range(d) : pr[1] = k)[2] ELSE 0

\* C5: for every cluster C of the period and every other cluster D, the weight
\* accumulated for D while aggregating C is the sum of the weights of exactly
\* the edges of the period joining a node of C to a node of D; C never occurs
\* among its own co-occurrences, and an edge with an endpoint that resolves to
\* no node contributes to no cluster.
C5_Attribution ==
    Calculated =>
        \A c \in DOMAIN river_data.tributary_stats :
            LET counts == CountsOf(c)
            IN  /\ c \notin Keys(counts)
                /\ Keys(counts) \subseteq (ClusterNames \cup {NA})
                /\ \A i, k \in 1..Len(counts) : counts[i][1] = counts[k][1] => i = k
                /\ \A d \in (ClusterNames \cup {NA}) \ {c} :
                      ValueOf(counts, d) = SumOver(Joining(c, d), EdgeWeight)

\* two edges of different weight accumulate for one pair of clusters, next to
\* an edge inside the cluster, which is left out
C5_Witness ==
    /\ Calculated
    /\ \E c \in DOMAIN river_data.tributary_stats : \E d \in ClusterNames \ {c} :
          /\ \E j, k \in Joining(c, d) : EdgeWeight[j] = 1 /\ EdgeWeight[k] = 2
          /\ ValueOf(CountsOf(c), d) = 3
          /\ \E j \in PeriodEdgeIdx : ResolvesTo(StartOf(j), c) /\ ResolvesTo(EndOf(j), c)

\* an edge from a clustered node to a position that holds no node is counted
\* for no cluster
C5_DanglingWitness ==
    /\ Calculated
    /\ \E j \in PeriodEdgeIdx :
          /\ EndOf(j) \notin { NodePosOf(i) : i \in PeriodNodeIdx }
          /\ \E c \in DOMAIN river_data.tributary_stats :
                ResolvesTo(StartOf(j), c) /\ CountsOf(c) = << >>

\* position of the first edge of the period that joins c and d
FirstJoin(c, d) == CHOOSE j \in Joining(c, d) : \A k \in Joining(c, d) : j <= k

IndexIn(top, k) == CHOOSE i \in 1..Len(top) : top[i][1] = k

\* C6: co_occurrences holds at most 2 (other_cluster, accumulated_weight)
\* pairs taken from the accumulated counts, in non-increasing order of weight;
\* no omitted cluster has a strictly larger weight than a retained one; among
\* clusters of equal weight the one first encountered in edge order comes
\* first (and is the one retained).
C6_TopTwoRanking ==
    Calculated =>
        \A c \in DOMAIN river_data.tributary_stats :
            LET top == river_data.tributary_stats[c].co_occurrences
                counts == CountsOf(c)
            IN  /\ Len(top) <= 2
                /\ Len(top) = IF Len(counts) < 2 THEN Len(counts) ELSE 2
                /\ Range(top) \subseteq Range(counts)
                /\ \A i, k \in 1..Len(top) : i < k =>
                      /\ top[i][2] >= top[k][2]
                      /\ top[i][1] # top[k][1]
                /\ \A o \in Keys(counts) \ Keys(top) : \A i \in 1..Len(top) :
                      ValueOf(counts, o) <= top[i][2]
                /\ \A a, b \in Keys(counts) \ {NA} :
                      ( /\ a # b
                        /\ ValueOf(counts, a) = ValueOf(counts, b)
                        /\ FirstJoin(c, a) < FirstJoin(c, b)
                        /\ b \in Keys(top) )
                      => /\ a \in Keys(top)
                         /\ IndexIn(top, a) < IndexIn(top, b)

\* three other clusters with equal accumulated weight: the two first
\* encountered are kept, in that order, and the third is dropped
C6_Witness ==
    /\ Calculated
    /\ \E c \in DOMAIN river_data.tributary_stats :
          LET top == river_data.tributary_stats[c].co_occurrences
              counts == CountsOf(c)
          IN  /\ Len(counts) = 3
              /\ Len(top) = 2
              /\ \A i \in 1..3 : counts[i][2] = counts[1][2]
              /\ counts[1][2] >= 2
              /\ top = << counts[1], counts[2] >>

\* a later cluster with a larger accumulated weight overtakes an earlier one
C6_ReorderWitness ==
    /\ Calculated
    /\ \E c \in DOMAIN river_data.tributary_stats :
          LET top == river_data.tributary_stats[c].co_occurrences
              counts == CountsOf(c)
          IN  /\ Len(counts) = 3
              /\ top = << counts[3], counts[1] >>

AllClustered ==
    \A i \in 1..Len(river_data.nodes_quarter) : river_data.nodes_quarter[i].cluster_name # NA

CountOfCluster == [c \in DOMAIN river_data.tributary_stats |-> river_data.tributary_stats[c].count]
PercentageOfCluster ==
    [c \in DOMAIN river_data.tributary_stats |-> river_data.tributary_stats[c].percentage]

\* C7 as stated: in every period in which every node has a non-null
\* cluster_name the counts sum to total_nodes and the percentages sum to 100.
C7_Original ==
    (Calculated /\ AllClustered) =>
        /\ SumOver(DOMAIN river_data.tributary_stats, CountOfCluster) = river_data.total_nodes
        /\ RatEq(RatSumOver(DOMAIN river_data.tributary_stats, PercentageOfCluster),
                 [num |-> 100, den |-> 1])

\* C7 amended: the counts always sum to total_nodes; the percentages sum to
\* 100 when the period has at least one node (a period without nodes has no
\* cluster, and its percentages sum to 0).
C7_PercentagesSum ==
    (Calculated /\ AllClustered) =>
        /\ SumOver(DOMAIN river_data.tributary_stats, CountOfCluster) = river_data.total_nodes
        /\ river_data.total_nodes >= 1 =>
              RatEq(RatSumOver(DOMAIN river_data.tributary_stats, PercentageOfCluster),
                    [num |-> 100, den |-> 1])
        /\ river_data.total_nodes = 0 =>
              RatIsZero(RatSumOver(DOMAIN river_data.tributary_stats, PercentageOfCluster))

\* three clustered nodes in two clusters: shares of 1/3 and 2/3
C7_Witness ==
    /\ Calculated
    /\ AllClustered
    /\ river_data.total_nodes = 3
    /\ Cardinality(DOMAIN river_data.tributary_stats) = 2

\* ======================================================================
\* Properties of the two page payloads (checked under Spec)
\* ======================================================================
\* the cluster of the node of `nodes` at position p, Unknown when none is there
OwnerCluster(nodes, p) ==
    IF \E i \in 1..Len(nodes) : <<nodes[i].x, nodes[i].y>> = p
    THEN nodes[CHOOSE i \in 1..Len(nodes) : <<nodes[i].x, nodes[i].y>> = p].cluster_name
    ELSE Unknown

AnnotationsResolved(nodes, edges, edge_data) ==
    \A k \in 1..Len(edge_data) :
        /\ edge_data[k].hover_text.start_cluster =
              OwnerCluster(nodes, <<edges[k].x0, edges[k].y0>>)
        /\ edge_data[k].hover_text.end_cluster =
              OwnerCluster(nodes, <<edges[k].x1, edges[k].y1>>)

\* C1: for every edge and each of its two sides, the cluster in the annotation
\* is the cluster_name of the node at that endpoint, and "Unknown" iff no node
\* of the subset has that position, also for an edge whose two endpoints are
\* the same position.  (Violated: the elif of the matching loop leaves the end
\* side "Unknown" when both endpoints are the same node.)
C1_EdgeClustersResolved ==
    /\ viz.kind = "html" =>
          AnnotationsResolved(river_data.nodes_quarter, river_data.edges_quarter, viz.edge_data)
    /\ simple.kind = "html" =>
          AnnotationsResolved(df_nodes, df_edges, simple.edge_data)

\* C4: computing the co-occurrence rate never raises a division fault: on
\* every page a node table with zero nodes yields a rate of 0.  (Violated: the
\* simple page divides by len(df_nodes) without a guard.)
C4_NoDivisionFault ==
    /\ (river_data.selected_quarter # None /\ river_data.total_nodes = 0) =>
          (river_data.co_occurrence_rate.num = 0 /\ river_data.co_occurrence_rate.den # 0)
    /\ (simple.kind # None /\ Len(df_nodes) = 0) =>
          (simple.kind # "raise" /\ simple.rate.num = 0 /\ simple.rate.den # 0)

\* number of hover points the claim gives an edge: max(5, floor(L * 20)), with
\* L = sqrt(dx^2 + dy^2) / CoordScale, stated on squares
ExpectedPoints(edge) ==
    LET d2 == (edge.x1 - edge.x0) * (edge.x1 - edge.x0)
                + (edge.y1 - edge.y0) * (edge.y1 - edge.y0)
        m == CHOOSE m \in 0..(40 * (GridMax + 1)) :
                /\ m * m * CoordScale * CoordScale <= 400 * d2
                /\ 400 * d2 < (m + 1) * (m + 1) * CoordScale * CoordScale
    IN  IF m > 5 THEN m ELSE 5

HoverCountsMatch(edgeData, layer) ==
    LET exp == [k \in 1..Len(edgeData) |-> ExpectedPoints(edgeData[k])]
        off == [k \in 1..Len(edgeData) |-> SumSeq(SubSeq(exp, 1, k - 1))]
    IN  /\ Len(layer) = SumSeq(exp)
        /\ \A k \in 1..Len(edgeData) : \A i \in 1..exp[k] :
              /\ layer[off[k] + i].text = edgeData[k].hover_text
              /\ (edgeData[k].x0 = edgeData[k].x1 /\ edgeData[k].y0 = edgeData[k].y1) =>
                    /\ exp[k] = 5
                    /\ layer[off[k] + i].x.den # 0
                    /\ layer[off[k] + i].x.num = edgeData[k].x0 * layer[off[k] + i].x.den
                    /\ layer[off[k] + i].y.num = edgeData[k].y0 * layer[off[k] + i].y.den

\* C9: for every edge the number of hover points generated is
\* max(5, floor(L * 20)); for an edge of length 0 exactly 5 points are
\* generated and all of them coincide with the endpoint (both pages).
C9_HoverPointCount ==
    /\ traces.done => HoverCountsMatch(viz.edge_data, traces.hover)
    /\ simple_traces.done => HoverCountsMatch(simple.edge_data, simple_traces.hover)

\* a layer of 5 coincident points for an edge of length 0 followed by more
\* than 5 points for a longer edge
C9_Witness ==
    /\ traces.done
    /\ Len(viz.edge_data) = 2
    /\ viz.edge_data[1].x0 = viz.edge_data[1].x1
    /\ viz.edge_data[1].y0 = viz.edge_data[1].y1
    /\ Len(traces.hover) > 10
    /\ \A i \in 1..5 : traces.hover[i] = traces.hover[1]

\* the same on the simple page
C9_SimpleWitness ==
    /\ simple_traces.done
    /\ Len(simple.edge_data) = 2
    /\ simple.edge_data[2].x0 = simple.edge_data[2].x1
    /\ simple.edge_data[2].y0 = simple.edge_data[2].y1
    /\ Len(simple_traces.hover) > 10

ClustersOf(nodes) == { nodes[i].cluster_name : i \in 1..Len(nodes) } \ {NA}

\* the centroid the claim gives cluster c: weighted by scaled_size, or the
\* unweighted mean when all weights are zero
ExpectedCentroid(nodes, c, label) ==
    LET members == { i \in 1..Len(nodes) : nodes[i].cluster_name = c }
        wsum == SumOver(members, [i \in members |-> nodes[i].scaled_size])
        wx == SumOver(members, [i \in members |-> (-nodes[i].y) * nodes[i].scaled_size])
        wy == SumOver(members, [i \in members |-> nodes[i].x * nodes[i].scaled_size])
        ux == SumOver(members, [i \in members |-> -nodes[i].y])
        uy == SumOver(members, [i \in members |-> nodes[i].x])
    IN  IF wsum # 0
        THEN /\ RatEq(label.centroid_x, [num |-> wx, den |-> wsum])
             /\ RatEq(label.centroid_y, [num |-> wy, den |-> wsum])
        ELSE /\ RatEq(label.centroid_x, [num |-> ux, den |-> Cardinality(members)])
             /\ RatEq(label.centroid_y, [num |-> uy, den |-> Cardinality(members)])

CentroidsAsClaimed(nodes, kind, label_data) ==
    /\ kind = "html"
    /\ \A c \in ClustersOf(nodes) :
          \E k \in 1..Len(label_data) :
              label_data[k].text = c /\ ExpectedCentroid(nodes, c, label_data[k])

\* C10: for every cluster the label centroid is the scaled_size-weighted
\* average of the member positions, and when all member weights are zero the
\* computation falls back to the unweighted mean instead of faulting.
\* (Violated: np.average raises ZeroDivisionError when the weights sum to 0.)
C10_CentroidFallback ==
    /\ (viz.kind \notin {None, "placeholder"} /\ ClustersOf(river_data.nodes_quarter) # {}) =>
          CentroidsAsClaimed(river_data.nodes_quarter, viz.kind, viz.label_data)
    /\ (simple.kind # None /\ simple.exc # "TypeError"
          /\ ClustersOf(NodesConnected(df_nodes, df_edges)) # {}) =>
          CentroidsAsClaimed(NodesConnected(df_nodes, df_edges), simple.kind, simple.label_data)

\* what does hold: with a positive weight in every cluster the centroids are
\* the weighted averages
C10_PositiveWeights ==
    (/\ viz.kind \notin {None, "placeholder"}
     /\ ClustersOf(river_data.nodes_quarter) # {}
     /\ \A c \in ClustersOf(river_data.nodes_quarter) :
           \E i \in 1..Len(river_data.nodes_quarter) :
               /\ river_data.nodes_quarter[i].cluster_name = c
               /\ river_data.nodes_quarter[i].scaled_size > 0)
    => CentroidsAsClaimed(river_data.nodes_quarter, viz.kind, viz.label_data)

\* ======================================================================
\* Properties of the period navigation (checked under SpecNav)
\* ======================================================================
NavigationStep ==
    pc = "idle" =>
      /\ event'.widget = "backup_prev" =>
            slider_index' = IF slider_index = 0 THEN 0 ELSE slider_index - 1
      /\ event'.widget = "backup_next" =>
            slider_index' = IF slider_index = NumPeriods - 1
                            THEN slider_index ELSE slider_index + 1
      /\ event'.widget \in {"q", "backup_quarter_slider"} =>
            slider_index' = event'.value

C8_IndexInRange == NumPeriods >= 1 => slider_index \in 0..(NumPeriods - 1)

C8_NextClampWitness ==
    /\ NumPeriods >= 2
    /\ pc = "run"
    /\ event.widget = "backup_next"
    /\ backup_quarter_slider = NumPeriods - 1
    /\ slider_index = NumPeriods - 1

\* ======================================================================
\* Properties of the label layout (checked under Spec)
\* ======================================================================
\* an angle (num / den) * pi is a whole number of turns
WholeTurns(num, den) == num % (2 * den) = 0

AnglesAvoidZero(label_data) ==
    \A k \in 1..Len(label_data) :
        ~WholeTurns(label_data[k].angle.num, label_data[k].angle.den)

\* C11: for every cluster count n >= 1 and every rank i in 0..n-1 the offset
\* angle arc*i/n + pi/n is not congruent to 0 modulo 2*pi, on both pages.
\* (Violated: on the simple page arc = 2.2*pi, and 2.2*pi*5/6 + pi/6 = 2*pi.)
C11_NoLabelAtAngleZero ==
    /\ viz.kind = "html" => AnglesAvoidZero(viz.label_data)
    /\ simple.kind = "html" => AnglesAvoidZero(simple.label_data)

\* what does hold: the complex page, whose arc 1.2*pi is below a full turn
C11_ComplexAvoidsZero == viz.kind = "html" => AnglesAvoidZero(viz.label_data)

DirectionsDiffer(label_data) ==
    \A k, j \in 1..Len(label_data) :
        k # j =>
          /\ label_data[k].angle.den = label_data[j].angle.den
          /\ ~WholeTurns(label_data[k].angle.num - label_data[j].angle.num,
                         label_data[k].angle.den)

\* C12: the offset angles are spread evenly over an arc shorter than a full
\* turn, so any two distinct clusters of a layout get directions that differ
\* modulo 2*pi, on both pages.  (Violated: the simple page's arc is 2.2*pi;
\* with 11 clusters ranks 0 and 10 are one full turn apart.)
C12_DistinctDirections ==
    /\ viz.kind = "html" => DirectionsDiffer(viz.label_data)
    /\ simple.kind = "html" => DirectionsDiffer(simple.label_data)

\* what does hold: the complex page
C12_ComplexDistinct == viz.kind = "html" => DirectionsDiffer(viz.label_data)

\* the row orders a table of n rows is compared under: every permutation of
\* a short table; reversal, rotation and a swap of the first two rows of a
\* longer one
RowOrders(n) ==
    IF n <= 3
    THEN { f \in [1..n -> 1..n] : \A i, j \in 1..n : i # j => f[i] # f[j] }
    ELSE { [i \in 1..n |-> n + 1 - i],
           [i \in 1..n |-> (i % n) + 1],
           [i \in 1..n |-> IF i = 1 THEN 2 ELSE IF i = 2 THEN 1 ELSE i] }

Reordered(rows, f) == [i \in 1..Len(rows) |-> rows[f[i]]]

\* C13: the k-th label emitted is the cluster with the k-th smallest
\* cluster_name and gets the k-th offset angle and colour, and reordering
\* the rows of the node table leaves every label record (text, angle, colour,
\* centroid) as it is.
C13_LabelsReproducible ==
    viz.kind = "html" =>
      LET nodes == river_data.nodes_quarter
          names == SortedNames(ClustersOf(nodes))
      IN  /\ Len(viz.label_data) = Len(names)
          /\ \A k \in 1..Len(names) :
                /\ viz.label_data[k].text = names[k]
                /\ viz.label_data[k].angle =
                      [num |-> 6 * (k - 1) + 5, den |-> 5 * Len(names)]
                /\ viz.label_data[k].color = custom_cmap[((k - 1) % 7) + 1]
          /\ \A f \in RowOrders(Len(nodes)) :
                create_dynamic_visualization_html(
                    [river_data EXCEPT !.nodes_quarter = Reordered(nodes, f)]).label_data
                  = viz.label_data

\* a table whose first row belongs to the cluster that is labelled second
C13_Witness ==
    /\ viz.kind = "html"
    /\ Len(river_data.nodes_quarter) >= 3
    /\ Len(viz.label_data) = 2
    /\ river_data.nodes_quarter[1].cluster_name = viz.label_data[2].text

\* ======================================================================
\* Properties of the assembled payload (checked under Spec)
\* ======================================================================
\* C14: the number of entries of the payload's node array equals the summary
\* scalar total_nodes and the number of entries of its edge array equals
\* total_edges, for every period and every table.  (Violated: node_data is
\* built per non-null cluster on the complex page, and from the connected
\* nodes only on the simple page.)
C14_PayloadRoundTrip ==
    /\ viz.kind = "html" =>
          /\ Len(viz.node_data) = river_data.total_nodes
          /\ Len(viz.edge_data) = river_data.total_edges
    /\ simple.kind = "html" => Len(simple.node_data) = simple.total_nodes

\* what does hold: the edge array, and the node array counted against the
\* nodes with a cluster name (complex page) or the connected nodes (simple
\* page)
C14_ArraysMatchSubsets ==
    /\ viz.kind = "html" =>
          /\ Len(viz.edge_data) = river_data.total_edges
          /\ Len(viz.node_data) =
                Cardinality({ i \in 1..Len(river_data.nodes_quarter) :
                                river_data.nodes_quarter[i].cluster_name # NA })
    /\ simple.kind = "html" =>
          /\ Len(simple.edge_data) = Len(df_edges)
          /\ Len(simple.node_data) = simple.connected_nodes

\* a call for the period that the previous call was for returns what the
\* previous call returned, and no call changes the loaded tables
SecondCallStep ==
    /\ df_nodes' = df_nodes
    /\ df_edges' = df_edges
    /\ (/\ river_data.selected_quarter # None
        /\ river_data'.selected_quarter = river_data.selected_quarter)
       => river_data' = river_data

C16_NoStaleState ==
    pc = "idle" =>
      /\ river_data.selected_quarter = selected_quarter
      /\ river_data = calculate_river_flow_data(df_nodes, df_edges, selected_quarter)
      /\ viz = create_dynamic_visualization_html(
                  calculate_river_flow_data(df_nodes, df_edges, selected_quarter))

\* the page shows an earlier period after a later one was shown: navigation
\* went back from the default (latest) period
C16_Witness ==
    /\ pc = "idle"
    /\ NumPeriods >= 3
    /\ slider_index = 0
    /\ viz.kind = "html"
    /\ river_data.nodes_quarter # << >>
    /\ river_data.nodes_quarter[1].quarter = quarters(df_nodes)[1]

\* ======================================================================
\* Properties of concurrent recomputation (checked under SpecConc)
\* ======================================================================
\* a step of one invocation leaves the tables and the other invocation's
\* locals as they are
IsolatedStep ==
    /\ df_nodes' = df_nodes
    /\ df_edges' = df_edges
    /\ \A i \in Callers :
          calls'[i] # calls[i] => \A j \in Callers \ {i} : calls'[j] = calls[j]

\* C17: two invocations of the recomputation for different periods,
\* interleaved in any order over the same tables, each return what the
\* invocation returns when run alone, and neither writes state (tables,
\* lookup maps) that the other reads.
C17_ConcurrentRecomputation ==
    /\ [][IsolatedStep]_vars
    /\ [](\A i \in Callers :
            calls[i].pc = "done" =>
              calls[i].result =
                calculate_river_flow_data(df_nodes, df_edges, calls[i].selected_quarter))

\* both invocations are under way at once, each past its filter, for
\* periods that both hold rows
C17_Witness ==
    /\ calls[1].pc = "stats"
    /\ calls[2].pc = "connect"
    /\ calls[1].nodes_q # << >>
    /\ calls[2].nodes_q # << >>
    /\ calls[2].edges_q # << >>

\* ======================================================================
\* Missing sentiment column and node record cells (checked under SpecRecords)
\* ======================================================================
BothMissing == ~columns.nodes_has_sentiment /\ ~columns.edges_has_sentiment

NoticesFor(table) == Cardinality({ i \in 1..Len(notices) : notices[i] = table })

\* every row and every record built from the tables carries sentiment 0.0
DefaultsEverywhere ==
    /\ \A i \in 1..Len(df_nodes) : df_nodes[i].sentiment = Number(0, 1)
    /\ \A i \in 1..Len(df_edges) : df_edges[i].sentiment = Number(0, 1)
    /\ viz.kind = "html" =>
          /\ \A k \in 1..Len(viz.node_data) :
                viz.node_data[k].hover_text.sentiment_value = Number(0, 1)
          /\ \A k \in 1..Len(viz.edge_data) : viz.edge_data[k].hover_text.sentiment = Number(0, 1)
    /\ simple.kind = "html" =>
          /\ \A k \in 1..Len(simple.node_data) :
                simple.node_data[k].hover_text.sentiment_value = Number(0, 1)
          /\ \A k \in 1..Len(simple.edge_data) :
                simple.edge_data[k].hover_text.sentiment = Number(0, 1)

\* C18: when the sentiment column is absent from the node table and from
\* the edge table, once the page run has dealt with it every node and edge
\* record carries sentiment 0.0 and exactly one notice has been emitted for
\* the nodes and exactly one for the edges, on each page.  (Violated: the
\* complex page substitutes the default without any notice.)
C18_MissingSentimentNotices ==
    (columns.handled /\ BothMissing) =>
        /\ DefaultsEverywhere
        /\ NoticesFor("nodes") = 1
        /\ NoticesFor("edges") = 1

\* what does hold: the defaults on both pages, the two notices on the
\* simple page, none on the complex page
C18_DefaultsAndSimpleNotices ==
    /\ (columns.handled /\ BothMissing) => DefaultsEverywhere
    /\ (columns.handled /\ BothMissing /\ page = "simple") =>
          notices = << "nodes", "edges" >>
    /\ page = "complex" => notices = << >>

C18_DefaultsWitness ==
    /\ BothMissing
    /\ \/ viz.kind = "html" /\ viz.node_data # << >> /\ viz.edge_data # << >>
       \/ simple.kind = "html" /\ simple.node_data # << >> /\ simple.edge_data # << >>

\* the rows behind the node records of each page, in the order of the records
ComplexRecordRows ==
    ByCluster(river_data.nodes_quarter, UniqueClusters(river_data.nodes_quarter))

SimpleRecordRows ==
    LET connected == NodesConnected(df_nodes, df_edges)
    IN  ByCluster(connected, UniqueClusters(connected))

TypeFaults == { "TypeError", "ValueError" }

\* what the claim gives for a cell: the number (or the one element of the
\* collection) as an integer, 0 for anything else
AbsorbedScore(cell) ==
    IF cell.tag \in {"num", "set", "list"} THEN Truncate(cell.n, cell.d) ELSE 0

AbsorbedSentiment(cell) == IF cell.tag = "num" THEN cell ELSE Number(0, 1)

RecordsAbsorb(node_data, rows) ==
    /\ Len(node_data) = Len(rows)
    /\ \A k \in 1..Len(rows) :
          /\ node_data[k].hover_text.avg_score_display = AbsorbedScore(rows[k].avg_score)
          /\ node_data[k].hover_text.sentiment_value = AbsorbedSentiment(rows[k].sentiment)

\* C19: whatever the avg_score and sentiment cells of the nodes hold,
\* building the node records raises no type or value fault, on either page.
\* (Violated: int(float(...)) raises ValueError or TypeError for a cell
\* that is no number and no set.)
C19_NoTypeFault ==
    /\ viz.kind = "raise" => viz.exc \notin TypeFaults
    /\ simple.kind = "raise" => simple.exc \notin TypeFaults

\* the rest of the statement: each record shows the unwrapped element of a
\* one-element collection, or 0 (0.0 for the sentiment) where the cell is no
\* number.  (Violated as well: the simple page passes a NaN sentiment
\* through.)
C19_MalformedScalarAbsorbed ==
    /\ C19_NoTypeFault
    /\ viz.kind = "html" => RecordsAbsorb(viz.node_data, ComplexRecordRows)
    /\ simple.kind = "html" => RecordsAbsorb(simple.node_data, SimpleRecordRows)

\* what does hold: with every avg_score a number or a one-element set the
\* records are built on both pages, with the sentiment fallback on the
\* complex page only
WellFormedScores(rows) ==
    \A k \in 1..Len(rows) : rows[k].avg_score.tag \in {"num", "set"}

C19_SetsAndNumbersAbsorbed ==
    /\ (viz.kind # None /\ WellFormedScores(ComplexRecordRows)) =>
          /\ viz.kind = "raise" => viz.exc \notin TypeFaults
          /\ viz.kind = "html" => RecordsAbsorb(viz.node_data, ComplexRecordRows)
    /\ (simple.kind # None /\ WellFormedScores(SimpleRecordRows)) =>
          /\ simple.kind = "raise" => simple.exc \notin TypeFaults
          /\ simple.kind = "html" =>
                /\ Len(simple.node_data) = Len(SimpleRecordRows)
                /\ \A k \in 1..Len(SimpleRecordRows) :
                      simple.node_data[k].hover_text.avg_score_display =
                          AbsorbedScore(SimpleRecordRows[k].avg_score)

C19_SetWitness ==
    /\ viz.kind = "html"
    /\ \E k \in 1..Len(ComplexRecordRows) :
          /\ ComplexRecordRows[k].avg_score.tag = "set"
          /\ ComplexRecordRows[k].sentiment.tag = "nan"
          /\ viz.node_data[k].hover_text.sentiment_value = Number(0, 1)

\* t is n / d with its fractional part dropped
IsTruncation(t, n, d) ==
    IF n >= 0 THEN t * d <= n /\ n < (t + 1) * d
    ELSE (t - 1) * d < n /\ n <= t * d

ScoresTruncated(node_data, rows) ==
    /\ Len(node_data) = Len(rows)
    /\ \A k \in 1..Len(rows) :
          rows[k].avg_score.tag \in {"set", "num"} =>
              /\ IsTruncation(node_data[k].hover_text.avg_score_display,
                              rows[k].avg_score.n, rows[k].avg_score.d)
              /\ rows[k].avg_score = SetOf(42, 1) =>
                    node_data[k].hover_text.avg_score_display = 42

\* C20: in every payload that is built, the engagement score shown in the
\* record of a node whose avg_score is a one-element set {v} is int(v) (42
\* for {42}), and for a node whose avg_score is a plain number v it is v
\* truncated to an integer.
C20_EngagementScoreShown ==
    /\ viz.kind = "html" => ScoresTruncated(viz.node_data, ComplexRecordRows)
    /\ simple.kind = "html" => ScoresTruncated(simple.node_data, SimpleRecordRows)

\* a set with a fractional element next to a plain number, on the complex page
C20_Witness ==
    /\ viz.kind = "html"
    /\ \E k, j \in 1..Len(ComplexRecordRows) :
          /\ ComplexRecordRows[k].avg_score = SetOf(427, 10)
          /\ viz.node_data[k].hover_text.avg_score_display = 42
          /\ ComplexRecordRows[j].avg_score = Number(35, 1)
          /\ viz.node_data[j].hover_text.avg_score_display = 35

\* a negative fractional number on the simple page: truncation, not floor
C20_SimpleWitness ==
    /\ simple.kind = "html"
    /\ \E k \in 1..Len(SimpleRecordRows) :
          /\ SimpleRecordRows[k].avg_score = Number(-7, 2)
          /\ simple.node_data[k].hover_text.avg_score_display = -3

\* ======================================================================
\* Degraded outputs (checked under Spec)
\* ======================================================================
\* the selected period has no row in the node table
EmptyPeriod ==
    /\ Calculated
    /\ \A i \in 1..Len(df_nodes) : df_nodes[i].quarter # river_data.selected_quarter

\* C21: when the selected period has zero nodes, calculate_river_flow_data
\* returns total_nodes = 0, connected_count = 0, co_occurrence_rate = 0 and
\* an empty tributary_stats, and create_dynamic_visualization_html returns
\* the 'No data available' placeholder with no centroid or label computed.
C21_EmptyPeriod ==
    EmptyPeriod =>
        /\ river_data.total_nodes = 0
        /\ river_data.connected_count = 0
        /\ river_data.co_occurrence_rate.num = 0
        /\ DOMAIN river_data.tributary_stats = {}
        /\ viz.kind # None => viz = [NoViz EXCEPT !.kind = "placeholder"]

\* an empty period of a table that has nodes elsewhere and an edge in the period
C21_Witness ==
    /\ EmptyPeriod
    /\ Len(df_nodes) > 0
    /\ river_data.total_edges > 0
    /\ viz.kind = "placeholder"

\* the node set handed to the layout has nodes but no cluster
NoClusterComplex ==
    /\ viz.kind # None
    /\ river_data.nodes_quarter # << >>
    /\ \A i \in 1..Len(river_data.nodes_quarter) :
          river_data.nodes_quarter[i].cluster_name = NA

NoClusterSimple ==
    /\ simple.kind # None
    /\ Len(df_nodes) > 0
    /\ NodesConnected(df_nodes, df_edges) = << >>

\* C22: when the node set handed to the centroid layout contains no cluster
\* (no node is connected on the simple page, or every node of a non-empty
\* period has a null cluster_name on the complex page), the layout completes
\* with an empty label list.  (Violated: np.pi / len(centroids) divides by
\* zero on both pages.)
C22_LayoutNeverFatal ==
    /\ NoClusterComplex => viz.kind = "html" /\ viz.label_data = << >>
    /\ NoClusterSimple => simple.kind = "html" /\ simple.label_data = << >>

\* what does hold: in both cases the run ends in ZeroDivisionError
C22_LayoutFaults ==
    /\ NoClusterComplex => viz = Raised("ZeroDivisionError")
    /\ NoClusterSimple => simple = SimpleRaised("ZeroDivisionError")

C22_ComplexCase == NoClusterComplex

C22_SimpleCase == NoClusterSimple

\* ======================================================================
\* Properties of the period list (checked under SpecNav)
\* ======================================================================
\* the place of a raw key in the order of the raw keys
KeyRank(q) == CHOOSE i \in 1..Len(QuarterKeys) : QuarterKeys[i] = q

PeriodList ==
    LET qs == quarters(df_nodes)
    IN  /\ Range(qs) = { df_nodes[i].quarter : i \in 1..Len(df_nodes) }
        /\ \A i, j \in 1..Len(qs) : i < j => KeyRank(qs[i]) < KeyRank(qs[j])

\* C23: the list of periods is the set of distinct quarter values of the
\* node table in ascending order of the raw key, without duplicates, and as
\* long as no navigation widget has been used the current index is N-1.
C23_PeriodIndex ==
    /\ PeriodList
    /\ ~requested.made => slider_index = Len(quarters(df_nodes)) - 1

\* the page rendered in a new session for a table whose rows are neither
\* sorted nor distinct by quarter
C23_Witness ==
    /\ pc = "idle"
    /\ ~requested.made
    /\ NumPeriods >= 2
    /\ Len(df_nodes) > NumPeriods
    /\ df_nodes[1].quarter # quarters(df_nodes)[1]
    /\ river_data.selected_quarter = quarters(df_nodes)[NumPeriods]

\* the raw key the script recomputes for when the index is i (from 0)
PeriodAt(i) == reverse_label_map(df_nodes)[quarter_labels(df_nodes)[i + 1]]

\* C24: for every index i in 0..N-1 the raw key used for recomputation,
\* reverse_label_map[quarter_labels[i]], is quarters[i], and two different
\* indices never select the same period; a rendered page shows the period
\* quarters[slider_index].  (Violated: two raw keys with the same first four
\* characters and the same last character share one label, and the later
\* key takes the earlier one's place in reverse_label_map.)
C24_IndexRoundTrip ==
    /\ \A i \in 0..(NumPeriods - 1) : PeriodAt(i) = quarters(df_nodes)[i + 1]
    /\ \A i, j \in 0..(NumPeriods - 1) : i # j => PeriodAt(i) # PeriodAt(j)
    /\ pc = "idle" => river_data.selected_quarter = quarters(df_nodes)[slider_index + 1]

DistinctLabels ==
    \A i, j \in 1..NumPeriods :
        i # j => quarter_labels(df_nodes)[i] # quarter_labels(df_nodes)[j]

\* what does hold: the round trip for tables whose labels are distinct
C24_RoundTripDistinctLabels == DistinctLabels => C24_IndexRoundTrip

\* a page rendered for an index other than the last, labels distinct
C24_DistinctLabelsWitness ==
    /\ DistinctLabels
    /\ NumPeriods >= 3
    /\ pc = "idle"
    /\ slider_index = 1

\* the page rendered for the index of the earlier of two keys with one label
C24_SharedLabelCase ==
    /\ ~DistinctLabels
    /\ pc = "idle"
    /\ river_data.selected_quarter # quarters(df_nodes)[slider_index + 1]

\* ======================================================================
\* Geometry of the hover layer (checked under Spec)
\* ======================================================================
\* the coordinate c (a quotient) is a + (i / m) * (b - a)
Interpolates(c, a, b, i, m) ==
    /\ c.den # 0
    /\ c.num * m = (a * m + i * (b - a)) * c.den

Is(c, a) == c.den # 0 /\ c.num = a * c.den

HoverGeometry(edgeData, layer) ==
    LET n == [k \in 1..Len(edgeData) |-> ExpectedPoints(edgeData[k])]
        off == [k \in 1..Len(edgeData) |-> SumSeq(SubSeq(n, 1, k - 1))]
    IN  /\ Len(layer) = SumSeq(n)
        /\ \A k \in 1..Len(edgeData) :
              LET edge == edgeData[k]
              IN  /\ n[k] - 1 # 0
                  /\ \A i \in 0..(n[k] - 1) :
                        LET point == layer[off[k] + i + 1]
                        IN  /\ Interpolates(point.x, edge.x0, edge.x1, i, n[k] - 1)
                            /\ Interpolates(point.y, edge.y0, edge.y1, i, n[k] - 1)
                            /\ point.text = edge.hover_text
                  /\ Is(layer[off[k] + 1].x, edge.x0)
                  /\ Is(layer[off[k] + 1].y, edge.y0)
                  /\ Is(layer[off[k] + n[k]].x, edge.x1)
                  /\ Is(layer[off[k] + n[k]].y, edge.y1)

\* C25: for every edge with n hover points, point i is
\* (x0 + t (x1 - x0), y0 + t (y1 - y0)) with t = i / (n - 1), n - 1 is never
\* 0, the first point is the start of the edge and the last its end, every
\* point carries the edge's annotation, and the hover layer has one x, one y
\* and one text per point, the sum of n over the edges in all.
C25_HoverGeometry ==
    /\ traces.done => HoverGeometry(viz.edge_data, traces.hover)
    /\ simple_traces.done => HoverGeometry(simple.edge_data, simple_traces.hover)

\* two edges on the complex page, the second of nonzero length with more
\* than the minimum of points
C25_Witness ==
    /\ traces.done
    /\ Len(viz.edge_data) = 2
    /\ ExpectedPoints(viz.edge_data[2]) > 5
    /\ traces.hover[Len(traces.hover)].x.num # traces.hover[Len(traces.hover) - 1].x.num

C25_SimpleWitness ==
    /\ simple_traces.done
    /\ Len(simple.edge_data) >= 1
    /\ simple.edge_data[1].x0 # simple.edge_data[1].x1

\* ======================================================================
\* Recomputation passes of a script run (checked under SpecNav)
\* ======================================================================
\* C26: in every script run that renders the page, calculate_river_flow_data
\* is executed exactly once, for the selected period.  (Violated: a run that
\* renders executes it at the start of the main section and again after the
\* navigation widgets.)
C26_OnePassPerRun ==
    pc = "idle" => passes = << selected_quarter >>

\* what does hold: two passes one after the other for the same period in a
\* run that renders, one pass in a run that ends in st.rerun()
C26_TwoPassesPerRun ==
    /\ pc = "idle" => passes = << selected_quarter, selected_quarter >>
    /\ (pc = "run" /\ passes # << >>) => Len(passes) = 1

C26_RenderedAfterNavigation ==
    /\ pc = "idle"
    /\ requested.made
    /\ river_data.selected_quarter # quarters(df_nodes)[NumPeriods]

\* the banner, the sidebar and the graph of a rendered page are made from
\* river_data, itself the result of the passes of that run
RenderedFor(q) ==
    /\ passes = << q, q >>
    /\ river_data = calculate_river_flow_data(df_nodes, df_edges, q)
    /\ viz = create_dynamic_visualization_html(river_data)

\* C27: in every script run that reaches the statistics banner, the banner,
\* the sidebar and the graph are computed for the period
\* quarters[slider_index] with the value slider_index has at the end of the
\* run, and the first computation of the run is for the same period as the
\* second.  (Violated for the period: with two raw keys under one label the
\* run renders reverse_label_map[quarter_labels[slider_index]], which is not
\* quarters[slider_index].)
C27_RenderConsistency ==
    pc = "idle" => RenderedFor(quarters(df_nodes)[slider_index + 1])

\* what does hold: the page is rendered for the key the label of the
\* current index maps to, in both passes, and every assignment that changes
\* slider_index ends the run in st.rerun()
C27_RenderedForSelectedKey ==
    pc = "idle" => RenderedFor(selected_quarter)

C27_AssignmentReruns ==
    [][slider_index' # slider_index => pc' = "run"]_vars

C28_RunsEnd == (pc = "run") ~> (pc \in {"idle", "fault"})

C28_SliderAgrees == pc = "idle" => backup_quarter_slider = slider_index

\* the page rendered for the index shown before a dot click
C28_Reverted ==
    /\ pc = "idle"
    /\ requested.made
    /\ slider_index # requested.index

\* ======================================================================
\* Symmetry of the co-occurrence weights (checked under SpecRiver)
\* ======================================================================
\* C30: for every period and every pair of distinct clusters A and B, the
\* weight accumulated for B while aggregating A, before the cut to the top
\* two, equals the weight accumulated for A while aggregating B.
C30_SymmetricWeights ==
    Calculated =>
        \A a, b \in DOMAIN river_data.tributary_stats :
            a # b => ValueOf(CountsOf(a), b) = ValueOf(CountsOf(b), a)

\* a cluster with an edge leaving it for a second cluster and an edge
\* entering it from a third, of different weights
C30_Witness ==
    /\ Calculated
    /\ \E a, b, c \in DOMAIN river_data.tributary_stats :
          /\ Cardinality({a, b, c}) = 3
          /\ \E j \in PeriodEdgeIdx : ResolvesTo(StartOf(j), a) /\ ResolvesTo(EndOf(j), b)
          /\ \E j \in PeriodEdgeIdx : ResolvesTo(StartOf(j), c) /\ ResolvesTo(EndOf(j), a)
          /\ ValueOf(CountsOf(a), b) > 0
          /\ ValueOf(CountsOf(a), c) > 0
          /\ ValueOf(CountsOf(a), b) # ValueOf(CountsOf(a), c)

\* ======================================================================
\* Periods chosen through navigation (checked under SpecNav)
\* ======================================================================
NodesIn(q) == Cardinality({ i \in 1..Len(df_nodes) : df_nodes[i].quarter = q })

\* C29: every index of the period list selects a period with at least one
\* node, so every pass of a script run sees total_nodes >= 1 and a rendered
\* page never shows the zero rate of an empty period or the 'No data
\* available' placeholder.
C29_SelectablePeriodsHaveNodes ==
    /\ \A i \in 0..(NumPeriods - 1) : NodesIn(PeriodAt(i)) >= 1
    /\ \A k \in 1..Len(passes) : NodesIn(passes[k]) >= 1
    /\ pc = "idle" =>
          /\ river_data.total_nodes >= 1
          /\ river_data.co_occurrence_rate.den = river_data.total_nodes
          /\ viz.kind # "placeholder"

\* a page rendered after navigation for a raw key that differs from its label
C29_Witness ==
    /\ pc = "idle"
    /\ requested.made
    /\ NumPeriods >= 2
    /\ river_data.selected_quarter # QuarterLabel(river_data.selected_quarter)
    /\ river_data.total_nodes >= 1
====
